---- MODULE Spec2Model ----
(***************************************************************************)
(* A model of tachyfont.CffDict, the CFF DICT decoder: loadDict builds a   *)
(* Dict from a byte region by repeated calls of readOperandsOperator_      *)
(* (which uses parseNibbles_ for real literals), and getName / getKeys /   *)
(* get read the finished Dict.                                             *)
(***************************************************************************)
EXTENDS Integers, Sequences, FiniteSets, TLC

VARIABLES
  DEBUG,          \* goog.DEBUG, the build flag
  args,           \* the arguments of the loadDict call
  pc,             \* "start" | "init" (inside init_'s loop) | "done" | "failed"
  name_,          \* this.name_
  dataView_,      \* this.dataView_
  keys_,          \* this.keys_ (def = FALSE: the field was never assigned)
  dict_,          \* this.dict_
  dictOperators_, \* this.dictOperators_
  binEd,          \* init_'s BinaryFontEditor: its offset
  error,          \* the exception loadDict ended with, "none" otherwise
  log,            \* the lines given to goog.log.info
  scans,          \* history: what each returned readOperandsOperator_ call gave
  ret,            \* what the last getName / getKeys / get call gave its caller
  entries         \* history: the entries the region was encoded from, if any

vars == <<DEBUG, args, pc, name_, dataView_, keys_, dict_, dictOperators_,
          binEd, error, log, scans, ret, entries>>

-----------------------------------------------------------------------------
(* Numbers and strings *)

DigitChar(d) == <<"0", "1", "2", "3", "4", "5", "6", "7", "8", "9">>[d + 1]

\* Number.prototype.toString() of a non-negative integer.
RECURSIVE NatToString(_)
NatToString(n) ==
  IF n < 10 THEN DigitChar(n)
  ELSE NatToString(n \div 10) \o DigitChar(n % 10)

\* The decimal digits of m + 1, for m >= 0 (so that -(2^31) needs no 2^31).
SuccToString(m) ==
  IF m % 10 = 9
    THEN NatToString((m \div 10) + 1) \o "0"
    ELSE (IF m < 10 THEN "" ELSE NatToString(m \div 10)) \o DigitChar((m % 10) + 1)

\* Number.prototype.toString() of an integer.
NumberToString(n) ==
  IF n >= 0 THEN NatToString(n) ELSE "-" \o SuccToString(0 - (n + 1))

\* An operand: an integer, or the string parseNibbles_ returns.
IntOperand(v) == [t |-> "int", n |-> v, s |-> ""]
RealOperand(str) == [t |-> "real", n |-> 0, s |-> str]

\* String(operand), as array-to-string conversion applies it to each element.
OperandToString(o) == IF o.t = "int" THEN NumberToString(o.n) ELSE o.s

\* Array.prototype.toString(): the elements joined by ",".  (Joined by
\* halves, which keeps the evaluation shallow.)
RECURSIVE ArrayToString(_)
ArrayToString(a) ==
  IF Len(a) = 0 THEN ""
  ELSE IF Len(a) = 1 THEN OperandToString(a[1])
  ELSE LET h == Len(a) \div 2
       IN  (ArrayToString(SubSeq(a, 1, h)) \o ",")
             \o ArrayToString(SubSeq(a, h + 1, Len(a)))

-----------------------------------------------------------------------------
(* 32-bit integer arithmetic of the bitwise operators *)

\* x | y for 0 <= x, y < 2^k, bit by bit.
RECURSIVE BitOr(_, _, _)
BitOr(x, y, k) ==
  IF k = 0 THEN 0
  ELSE 2 * BitOr(x \div 2, y \div 2, k - 1)
       + (IF (x % 2) + (y % 2) > 0 THEN 1 ELSE 0)

\* A 32-bit word as its four bytes, most significant first.
ShiftLeft24(b) == <<b, 0, 0, 0>>
ShiftLeft16(b) == <<0, b, 0, 0>>
ShiftLeft8(b)  == <<0, 0, b, 0>>
Word(b)        == <<0, 0, 0, b>>
WordOr(u, w) == [i \in 1..4 |-> BitOr(u[i], w[i], 8)]

\* The Number a 32-bit word is: ToInt32, two's complement.
ToInt32(w) ==
  (IF w[1] >= 128 THEN w[1] - 256 ELSE w[1]) * 16777216
  + w[2] * 65536 + w[3] * 256 + w[4]

-----------------------------------------------------------------------------
(* The byte cursor: a BinaryFontEditor over the DataView of the region *)

\* new DataView(buffer, offset, length)
DataView(buffer, offset, length) ==
  [buffer |-> buffer, byteOffset |-> offset, byteLength |-> length]

\* Whether getUint8 at cursor offset off succeeds (else it throws OutOfRange).
InRange(dv, off) == off < dv.byteLength

\* binEd.getUint8() at cursor offset off: the byte; the cursor moves on by one.
getUint8(dv, off) == dv.buffer[dv.byteOffset + off + 1]

-----------------------------------------------------------------------------
(* parseNibbles_ *)

\* NibbleText with 0xc appending "E-", the order the CFF format gives.
NibbleTextEMinus(nibble) ==
  IF nibble <= 9 THEN NatToString(nibble)
  ELSE IF nibble = 10 THEN "."
  ELSE IF nibble = 11 THEN "E"
  ELSE IF nibble = 12 THEN "E-"
  ELSE IF nibble = 14 THEN "-"
  ELSE ""

\* The characters one nibble appends; 0xd appends nothing.
NibbleText(nibble) ==
  IF nibble <= 9 THEN NatToString(nibble)
  ELSE IF nibble = 10 THEN "."
  ELSE IF nibble = 11 THEN "E"
  ELSE IF nibble = 12 THEN "-E"
  ELSE IF nibble = 14 THEN "-"
  ELSE ""

\* One pass of parseNibbles_'s while loop body: the byte's two nibbles, high
\* nibble first; done when a 0xf nibble returned the operand.
NibblesOfByte(aByte, operand) ==
  LET hi == aByte \div 16
      lo == aByte % 16
  IN  IF hi = 15 THEN [done |-> TRUE, operand |-> operand]
      ELSE IF lo = 15
        THEN [done |-> TRUE, operand |-> operand \o NibbleText(hi)]
      ELSE [done |-> FALSE,
            operand |-> (operand \o NibbleText(hi)) \o NibbleText(lo)]

\* The bound in parseNibbles_'s while condition, operandsCnt++ <= 48.
NibbleBytesLimit == 48

\* One test of parseNibbles_'s while condition and, if it holds, one pass of
\* the body, from loop state s (cnt is operandsCnt).
NibblesPass(dv, s) ==
  IF ~(s.cnt <= NibbleBytesLimit) THEN [s EXCEPT !.done = TRUE]
  ELSE IF ~InRange(dv, s.offset)
    THEN [s EXCEPT !.done = TRUE, !.err = "OutOfRange"]
  ELSE
    LET r == NibblesOfByte(getUint8(dv, s.offset), s.operand)
    IN  [err |-> "none", operand |-> r.operand, offset |-> s.offset + 1,
         cnt |-> s.cnt + 1, done |-> r.done]

\* The while loop of parseNibbles_: up to n passes, until it returns or throws.
RECURSIVE NibblesLoop(_, _, _)
NibblesLoop(dv, s, n) ==
  IF s.done THEN s
  ELSE IF n <= 1 THEN NibblesPass(dv, s)
  ELSE LET h == n \div 2
       IN  NibblesLoop(dv, NibblesLoop(dv, s, h), n - h)

\* Every pass but the last reads one byte, so the bytes left plus one are
\* passes enough.
parseNibbles_(dv, off) ==
  NibblesLoop(dv, [err |-> "none", operand |-> "", offset |-> off, cnt |-> 0,
                   done |-> FALSE],
              (dv.byteLength - off) + 1)

-----------------------------------------------------------------------------
(* readOperandsOperator_ *)

IsReserved(b0) == (b0 >= 22 /\ b0 <= 27) \/ b0 = 31 \/ b0 = 255

\* The integer encodings, by leading byte.
Operand1(b0) == b0 - 139
Operand2Pos(b0, b1) == (b0 - 247) * 256 + b1 + 108
Operand2Neg(b0, b1) == (0 - (b0 - 251)) * 256 - b1 - 108
\* Operand3 with the 16 bits sign-extended.
Operand3Signed(b1, b2) ==
  IF b1 >= 128 THEN (b1 * 256 + b2) - 65536 ELSE b1 * 256 + b2
Operand3(b1, b2) == ToInt32(WordOr(ShiftLeft8(b1), Word(b2)))
Operand5(b1, b2, b3, b4) ==
  ToInt32(WordOr(WordOr(WordOr(ShiftLeft24(b1), ShiftLeft16(b2)),
                        ShiftLeft8(b3)), Word(b4)))

\* What one pass of readOperandsOperator_'s while loop body does at cursor
\* offset off: throw, push an operand, or read the operator and break.
Throw(kind, off) ==
  [do |-> "throw", err |-> kind, operand |-> IntOperand(0), key |-> "",
   offset |-> off]
Push(operand, off) ==
  [do |-> "push", err |-> "none", operand |-> operand, key |-> "",
   offset |-> off]
Break(key, off) ==
  [do |-> "break", err |-> "none", operand |-> IntOperand(0), key |-> key,
   offset |-> off]

\* The operator string of a leading byte that is no operand.
ReadOperator(dv, off, b0) ==
  IF b0 = 12
    THEN IF ~InRange(dv, off + 1) THEN Throw("OutOfRange", off + 1)
         ELSE Break("12 " \o NatToString(getUint8(dv, off + 1)), off + 2)
    ELSE Break("" \o NatToString(b0), off + 1)

ReadToken(dv, off) ==
  IF ~InRange(dv, off) THEN Throw("OutOfRange", off)
  ELSE
    LET b0 == getUint8(dv, off)
        B(i) == getUint8(dv, off + i)
    IN  IF IsReserved(b0) THEN Throw("ReservedOperand", off + 1)
        ELSE IF b0 >= 32 /\ b0 <= 246
          THEN Push(IntOperand(Operand1(b0)), off + 1)
        ELSE IF b0 >= 247 /\ b0 <= 250 THEN
          IF ~InRange(dv, off + 1) THEN Throw("OutOfRange", off + 1)
          ELSE Push(IntOperand(Operand2Pos(b0, B(1))), off + 2)
        ELSE IF b0 >= 251 /\ b0 <= 254 THEN
          IF ~InRange(dv, off + 1) THEN Throw("OutOfRange", off + 1)
          ELSE Push(IntOperand(Operand2Neg(b0, B(1))), off + 2)
        ELSE IF b0 = 28 THEN
          IF ~InRange(dv, off + 2) THEN Throw("OutOfRange", dv.byteLength)
          ELSE Push(IntOperand(Operand3(B(1), B(2))), off + 3)
        ELSE IF b0 = 29 THEN
          IF ~InRange(dv, off + 4) THEN Throw("OutOfRange", dv.byteLength)
          ELSE Push(IntOperand(Operand5(B(1), B(2), B(3), B(4))), off + 5)
        ELSE IF b0 = 30 THEN
          LET r == parseNibbles_(dv, off + 1)
          IN  IF r.err # "none" THEN Throw(r.err, r.offset)
              ELSE Push(RealOperand(r.operand), r.offset)
        ELSE ReadOperator(dv, off, b0)

\* The bound in readOperandsOperator_'s while condition, operands.length <= 48.
OperandsLimit == 48

\* One test of readOperandsOperator_'s while condition and, if it holds, one
\* pass of the body, from loop state s.  spans is history: for each pushed
\* operand, the cursor offsets <<first, past>> of the bytes read for it.
OperandsPass(dv, s) ==
  IF ~(Len(s.value) <= OperandsLimit) THEN [s EXCEPT !.done = TRUE]
  ELSE
    LET t == ReadToken(dv, s.offset)
    IN  IF t.do = "push"
          THEN [s EXCEPT !.value = Append(s.value, t.operand),
                         !.spans = Append(s.spans, <<s.offset, t.offset>>),
                         !.offset = t.offset]
        ELSE IF t.do = "break"
          THEN [s EXCEPT !.key = t.key, !.offset = t.offset, !.done = TRUE]
        ELSE [err |-> t.err, key |-> "", value |-> <<>>, offset |-> t.offset,
              spans |-> <<>>, done |-> TRUE]

\* The while loop of readOperandsOperator_: up to n passes, until it returns
\* or throws.
RECURSIVE OperandsLoop(_, _, _)
OperandsLoop(dv, s, n) ==
  IF s.done THEN s
  ELSE IF n <= 1 THEN OperandsPass(dv, s)
  ELSE LET h == n \div 2
       IN  OperandsLoop(dv, OperandsLoop(dv, s, h), n - h)

\* What readOperandsOperator_ gives: the exception thrown (err), or the
\* key/value pair returned and the cursor offset it leaves.
readOperandsOperator_(dv, off) ==
  OperandsLoop(dv, [err |-> "none", key |-> "", value |-> <<>>, offset |-> off,
                    spans |-> <<>>, done |-> FALSE],
               (dv.byteLength - off) + 1)

-----------------------------------------------------------------------------
(* The Dict object and loadDict *)

\* tachyfont.CffDict.TOP_DICT_OPERATORS
TOP_DICT_OPERATORS ==
  [k \in {"0", "1", "12 0", "2", "3", "4", "5", "6", "7", "10", "11", "12 1",
          "12 2", "12 3", "12 4", "12 5", "12 6", "12 7", "12 8", "12 12",
          "12 13", "12 17", "13", "14", "15", "16", "17", "18", "19", "20",
          "21", "12 20", "12 21", "12 22", "12 23", "12 30", "12 31", "12 32",
          "12 33", "12 34", "12 35", "12 36", "12 37", "12 38"} |->
     CASE k = "0" -> "version" [] k = "1" -> "Notice" [] k = "12 0" -> "Copyright"
       [] k = "2" -> "FullName" [] k = "3" -> "FamilyName" [] k = "4" -> "Weight"
       [] k = "5" -> "FontBBox" [] k = "6" -> "BlueValues" [] k = "7" -> "OtherBlue"
       [] k = "10" -> "StdHW" [] k = "11" -> "StdVW" [] k = "12 1" -> "IsFixedPitch"
       [] k = "12 2" -> "ItalicAngle" [] k = "12 3" -> "UnderlinePosition"
       [] k = "12 4" -> "UnderlineThickness" [] k = "12 5" -> "PaintType"
       [] k = "12 6" -> "CharstringType" [] k = "12 7" -> "FontMatrix"
       [] k = "12 8" -> "StrokeWidth" [] k = "12 12" -> "StemSnapH"
       [] k = "12 13" -> "StemSnapV" [] k = "12 17" -> "LanguageGroup"
       [] k = "13" -> "UniqueID" [] k = "14" -> "XUID" [] k = "15" -> "charset"
       [] k = "16" -> "Encoding" [] k = "17" -> "CharStrings" [] k = "18" -> "Private"
       [] k = "19" -> "Subrs" [] k = "20" -> "DefaultWidthX"
       [] k = "21" -> "NominalWidthX" [] k = "12 20" -> "SyntheticBase"
       [] k = "12 21" -> "PostScript" [] k = "12 22" -> "BaseFontName"
       [] k = "12 23" -> "BaseFontBlen" [] k = "12 30" -> "ROS"
       [] k = "12 31" -> "CIDFontVersion" [] k = "12 32" -> "CIDFontRevision"
       [] k = "12 33" -> "CIDFontType" [] k = "12 34" -> "CIDCount"
       [] k = "12 35" -> "UIDBase" [] k = "12 36" -> "FDArray"
       [] k = "12 37" -> "FDSelect" [] k = "12 38" -> "FontName"]

\* A field or argument that may be undefined.
Undefined(zero) == [def |-> FALSE, v |-> zero]
Defined(x) == [def |-> TRUE, v |-> x]

\* new tachyfont.CffDict(name, dataView), then setOperators under goog.DEBUG:
\* the object's fields as init_ finds them.
CffDict(debug, name, dataView, opt_dictOperators) ==
  [name_ |-> name,
   dataView_ |-> dataView,
   keys_ |-> IF debug THEN Defined(<<>>) ELSE Undefined(<<>>),
   dict_ |-> <<>>,
   dictOperators_ |-> IF debug THEN opt_dictOperators ELSE Undefined(<<>>)]

\* The text init_ logs after a scan.
ScanLogLine(dictOperators, kv) ==
  IF dictOperators.def /\ kv.key \in DOMAIN dictOperators.v
    THEN "  " \o ArrayToString(kv.value) \o " " \o dictOperators.v[kv.key]
    ELSE "  " \o ArrayToString(kv.value) \o " " \o kv.key

\* this.keys_.push(key); this.dict_[key] = value.  With keys_ undefined the
\* push throws a TypeError and the assignment is not reached.
Store(st, kv) ==
  IF ~st.keys_.def
    THEN [st EXCEPT !.pc = "failed", !.error = "TypeError"]
    ELSE [st EXCEPT !.keys_ = Defined(Append(st.keys_.v, kv.key)),
                    !.dict_ = (kv.key :> kv.value) @@ st.dict_]

\* One pass of the body of init_'s while loop, from the state st of the
\* object (its fields, the cursor, the log); the guard is the loop's.
InitLoopBody(debug, st) ==
  LET kv == readOperandsOperator_(st.dataView_, st.binEd)
  IN  IF kv.err = "ReservedOperand"
        THEN [st EXCEPT !.pc = "failed", !.error = kv.err,
                !.log = IF debug
                  THEN Append(st.log,
                         NatToString(getUint8(st.dataView_, kv.offset - 1))
                           \o " is a reserved operand value")
                  ELSE st.log]
      ELSE IF kv.err # "none"
        THEN [st EXCEPT !.pc = "failed", !.error = kv.err]
      ELSE Store([st EXCEPT !.binEd = kv.offset,
                            !.scans = Append(st.scans, kv),
                            !.log = IF debug
                              THEN Append(st.log, ScanLogLine(st.dictOperators_, kv))
                              ELSE st.log],
                 kv)

\* The state init_ starts from: the object loadDict constructed and
\* a BinaryFontEditor at offset 0.
InitEntry(debug, a) ==
  LET d == CffDict(debug, a.name,
                   DataView(a.buffer, a.offset, a.length), a.opt_dictOperators)
  IN  [name_ |-> d.name_, dataView_ |-> d.dataView_, keys_ |-> d.keys_,
       dict_ |-> d.dict_, dictOperators_ |-> d.dictOperators_,
       binEd |-> 0, pc |-> "init", error |-> "none",
       log |-> <<>>, scans |-> <<>>]

\* new DataView throws a RangeError when the region does not lie in the buffer.
RegionFits(a) == a.offset + a.length <= Len(a.buffer)

\* The state loadDict leaves when new DataView throws.
NoDataView(a) ==
  [InitEntry(FALSE, [a EXCEPT !.buffer = <<>>, !.offset = 0, !.length = 0])
     EXCEPT !.name_ = "", !.pc = "failed", !.error = "RangeError"]

\* One test of init_'s while condition, then a pass of the body or the return.
InitPass(debug, st) ==
  IF st.binEd < st.dataView_.byteLength
    THEN InitLoopBody(debug, st)
    ELSE [st EXCEPT !.pc = "done"]

\* init_: up to n passes, until it returns or throws.
RECURSIVE init_(_, _, _)
init_(debug, st, n) ==
  IF st.pc # "init" THEN st
  ELSE IF n <= 1 THEN InitPass(debug, st)
  ELSE LET h == n \div 2
       IN  init_(debug, init_(debug, st, h), n - h)

\* loadDict as one call: the state it ends in.
loadDict(debug, a) ==
  IF RegionFits(a) THEN init_(debug, InitEntry(debug, a), a.length + 1)
  ELSE NoDataView(a)

\* get returning an empty list, instead of throwing, for a missing key.
getNoThrow(st, key) ==
  [op |-> "get", key |-> key, err |-> "none", msg |-> "",
   value |-> IF key \in DOMAIN st.dict_ THEN st.dict_[key] ELSE <<>>,
   name |-> "", keys |-> Undefined(<<>>)]

\* CffDict.prototype.get
get(st, key) ==
  IF key \in DOMAIN st.dict_
    THEN [op |-> "get", key |-> key, err |-> "none", msg |-> "",
          value |-> st.dict_[key], name |-> "", keys |-> Undefined(<<>>)]
    ELSE [op |-> "get", key |-> key, err |-> "RangeError",
          msg |-> "CFF " \o st.name_ \o " DICT: invalid key: " \o key,
          value |-> <<>>, name |-> "", keys |-> Undefined(<<>>)]

\* CffDict.prototype.getName
getName(st) ==
  [op |-> "getName", key |-> "", err |-> "none", msg |-> "",
   value |-> <<>>, name |-> st.name_, keys |-> Undefined(<<>>)]

\* CffDict.prototype.getKeys
getKeys(st) ==
  [op |-> "getKeys", key |-> "", err |-> "none", msg |-> "",
   value |-> <<>>, name |-> "", keys |-> st.keys_]

NoCall ==
  [op |-> "none", key |-> "", err |-> "none", msg |-> "",
   value |-> <<>>, name |-> "", keys |-> Undefined(<<>>)]

-----------------------------------------------------------------------------
(* Table 3 as an encoder: the bytes of an integer operand *)

\* The four bytes of m, 0 <= m < 2^31, most significant first.
Bytes4(m) ==
  <<m \div 16777216, (m \div 65536) % 256, (m \div 256) % 256, m % 256>>

EncodeInt(v) ==
  IF v >= 0 - 107 /\ v <= 107 THEN <<v + 139>>
  ELSE IF v >= 108 /\ v <= 1131
    THEN <<247 + ((v - 108) \div 256), (v - 108) % 256>>
  ELSE IF v >= 0 - 1131 /\ v <= 0 - 108
    THEN <<251 + (((0 - v) - 108) \div 256), ((0 - v) - 108) % 256>>
  ELSE IF v >= 0 - 32768 /\ v <= 32767
    THEN LET u == IF v < 0 THEN v + 65536 ELSE v
         IN  <<28, u \div 256, u % 256>>
  ELSE IF v >= 0 THEN <<29>> \o Bytes4(v)
  ELSE LET c == Bytes4(0 - (v + 1))
       IN  <<29, 255 - c[1], 255 - c[2], 255 - c[3], 255 - c[4]>>

RECURSIVE EncodeOperands(_)
EncodeOperands(vs) ==
  IF Len(vs) = 0 THEN <<>>
  ELSE IF Len(vs) = 1 THEN EncodeInt(vs[1])
  ELSE LET h == Len(vs) \div 2
       IN  EncodeOperands(SubSeq(vs, 1, h))
             \o EncodeOperands(SubSeq(vs, h + 1, Len(vs)))

\* An entry: its operands' bytes, then its operator's byte(s).
RECURSIVE EncodeEntries(_)
EncodeEntries(es) ==
  IF Len(es) = 0 THEN <<>>
  ELSE EncodeOperands(es[1].value) \o es[1].op \o EncodeEntries(Tail(es))

-----------------------------------------------------------------------------
(* The inputs *)

MaxLen == 3
MaxEntries == 2
MaxNibbleBytes == 2

SeqsUpTo(A, n) == UNION {[1..k -> A] : k \in 0..n}
Rep(b, n) == [i \in 1..n |-> b]

\* Bytes that start every kind of token, or sit inside one.
Alphabet == {5, 12, 22, 28, 30, 47, 139}
SampleBytes == {0, 1, 2, 16, 22, 127, 128, 255}
LowBytes == {0, 16, 255}
NibbleBytes == {17, 26, 47, 188, 211, 229, 240}

ShortRegions == SeqsUpTo(Alphabet, MaxLen)

IntRegions ==
  {<<b0, 5>> : b0 \in 32..246}
  \cup {<<b0, b1, 5>> : b0 \in 247..254, b1 \in SampleBytes}
  \cup {<<28, b1, b2, 5>> : b1 \in SampleBytes, b2 \in SampleBytes}
  \cup {<<29, b1, b[1], b[2], b[3], 12, 7>> :
          b1 \in SampleBytes, b \in [1..3 -> LowBytes]}

OperatorRegions ==
  {<<b0>> : b0 \in 0..31 \cup {255}}
  \cup {<<12, b1>> : b1 \in SampleBytes \cup {7, 12, 30}}

RealRegions ==
  {<<30>> \o n \o t :
     n \in SeqsUpTo(NibbleBytes, MaxNibbleBytes), t \in {<<>>, <<5>>}}
  \cup {<<30>> \o Rep(17, k) \o t :
          k \in (NibbleBytesLimit - 1)..(NibbleBytesLimit + 2),
          t \in {<<>>, <<47>>, <<5>>, <<47, 5>>}}
  \cup {<<30, 26, 47, 30>> \o Rep(17, NibbleBytesLimit + 1) \o <<5>>}

\* Regions around the operand limit of one scan.
LongRegions ==
  {Rep(139, k) \o t :
     k \in (OperandsLimit - 1)..(OperandsLimit + 2),
     t \in {<<>>, <<5>>, <<22>>, <<12, 7>>}}

RawRegions ==
  ShortRegions \cup IntRegions \cup OperatorRegions \cup RealRegions
  \cup LongRegions

\* Entries to encode: operator bytes with the token they stand for, and
\* integer operands from every row of Table 3.
OperatorChoices ==
  {[op |-> <<5>>, token |-> "5"], [op |-> <<12, 7>>, token |-> "12 7"]}
OperandLists ==
  {<<>>, <<0 - 107, 107>>, <<108, 0 - 1131>>, <<1131, 0 - 108>>,
   <<1132, 0 - 32768>>, <<32768, (0 - 2147483647) - 1>>,
   Rep(0, OperandsLimit), Rep(0, OperandsLimit + 1)}
EntryChoices ==
  {[op |-> o.op, token |-> o.token, value |-> v] :
     o \in OperatorChoices, v \in OperandLists}
EntrySeqs == UNION {[1..k -> EntryChoices] : k \in 1..MaxEntries}

Inputs ==
  {[bytes |-> r, enc |-> FALSE, seq |-> <<>>] : r \in RawRegions}
  \cup {[bytes |-> EncodeEntries(es), enc |-> TRUE, seq |-> es] : es \in EntrySeqs}

\* Where the region lies in the buffer; over > 0 makes it end past the buffer.
Placements ==
  {[pre |-> <<>>, post |-> <<>>, over |-> 0],
   [pre |-> <<139>>, post |-> <<139, 5>>, over |-> 0],
   [pre |-> <<>>, post |-> <<>>, over |-> 1]}

OptChoices == {Undefined(<<>>), Defined(TOP_DICT_OPERATORS)}
Names == {"Top"}
QueryKeys == {"", "5", "12 7", "22"}

-----------------------------------------------------------------------------
(* The state machine *)

\* The object, the cursor and the log as one record.
Obj ==
  [name_ |-> name_, dataView_ |-> dataView_, keys_ |-> keys_, dict_ |-> dict_,
   dictOperators_ |-> dictOperators_, binEd |-> binEd, pc |-> pc,
   error |-> error, log |-> log, scans |-> scans]

SetObj(st) ==
  /\ name_' = st.name_
  /\ dataView_' = st.dataView_
  /\ keys_' = st.keys_
  /\ dict_' = st.dict_
  /\ dictOperators_' = st.dictOperators_
  /\ binEd' = st.binEd
  /\ pc' = st.pc
  /\ error' = st.error
  /\ log' = st.log
  /\ scans' = st.scans

Init ==
  /\ DEBUG \in BOOLEAN
  /\ \E in \in Inputs, pl \in Placements, o \in OptChoices, n \in Names :
       /\ args = [name |-> n, buffer |-> pl.pre \o in.bytes \o pl.post,
                  offset |-> Len(pl.pre), length |-> Len(in.bytes) + pl.over,
                  opt_dictOperators |-> o]
       /\ entries = [enc |-> in.enc /\ pl.over = 0, seq |-> in.seq]
  /\ pc = "start"
  /\ name_ = ""
  /\ dataView_ = DataView(<<>>, 0, 0)
  /\ keys_ = Undefined(<<>>)
  /\ dict_ = <<>>
  /\ dictOperators_ = Undefined(<<>>)
  /\ binEd = 0
  /\ error = "none"
  /\ log = <<>>
  /\ scans = <<>>
  /\ ret = NoCall

\* loadDict up to the first test of init_'s loop.
LoadDict ==
  /\ pc = "start"
  /\ SetObj(IF RegionFits(args) THEN InitEntry(DEBUG, args) ELSE NoDataView(args))
  /\ UNCHANGED <<DEBUG, args, ret, entries>>

\* One pass of init_'s loop.
Scan ==
  /\ pc = "init"
  /\ binEd < dataView_.byteLength
  /\ SetObj(InitLoopBody(DEBUG, Obj))
  /\ UNCHANGED <<DEBUG, args, ret, entries>>

\* The loop ends; init_ and loadDict return the Dict.
Return ==
  /\ pc = "init"
  /\ ~(binEd < dataView_.byteLength)
  /\ pc' = "done"
  /\ UNCHANGED <<DEBUG, args, name_, dataView_, keys_, dict_, dictOperators_,
                 binEd, error, log, scans, ret, entries>>

Get(key) ==
  /\ pc = "done"
  /\ ret' = get(Obj, key)
  /\ UNCHANGED <<DEBUG, args, pc, name_, dataView_, keys_, dict_,
                 dictOperators_, binEd, error, log, scans, entries>>

GetName ==
  /\ pc = "done"
  /\ ret' = getName(Obj)
  /\ UNCHANGED <<DEBUG, args, pc, name_, dataView_, keys_, dict_,
                 dictOperators_, binEd, error, log, scans, entries>>

GetKeys ==
  /\ pc = "done"
  /\ ret' = getKeys(Obj)
  /\ UNCHANGED <<DEBUG, args, pc, name_, dataView_, keys_, dict_,
                 dictOperators_, binEd, error, log, scans, entries>>

Next ==
  \/ LoadDict
  \/ Scan
  \/ Return
  \/ \E key \in QueryKeys : Get(key)
  \/ GetName
  \/ GetKeys

Spec == Init /\ [][Next]_vars

-----------------------------------------------------------------------------
(* The claims *)

\* The byte of the region at cursor offset o.
RegionByte(o) == args.buffer[args.offset + o + 1]

\* Every operand of every scan made so far, as <<scan, index>>.
Operands ==
  {<<j, i>> \in (1..Len(scans)) \X (1..(OperandsLimit + 1)) :
     i <= Len(scans[j].value)}

OperandIs(p, v) == scans[p[1]].value[p[2]] = IntOperand(v)
LeadOf(p) == RegionByte(scans[p[1]].spans[p[2]][1])
After(p, k) == RegionByte(scans[p[1]].spans[p[2]][1] + k)

Region == DataView(args.buffer, args.offset, args.length)

\* Whether reading token after token from cursor offset off comes to a
\* reserved byte at the first byte of a token.
RECURSIVE ReservedLead(_)
ReservedLead(off) ==
  /\ InRange(Region, off)
  /\ LET kv == readOperandsOperator_(Region, off)
     IN  \/ kv.err = "ReservedOperand"
         \/ kv.err = "none" /\ ReservedLead(kv.offset)

\* C2: when the byte at a token-leading position of the region is one of
\* 22..27, 31, 255, loadDict fails with the reserved-operand-byte error and
\* returns no Dict, however many tokens precede that byte.
C2_ReservedLeadFailsDecode ==
  (pc \in {"done", "failed"} /\ RegionFits(args) /\ ReservedLead(0))
    => (pc = "failed" /\ error = "ReservedOperand")

ScanKeys == [i \in 1..Len(scans) |-> scans[i].key]
LastScanOf(t) ==
  CHOOSE i \in 1..Len(scans) :
    /\ scans[i].key = t
    /\ \A j \in (i + 1)..Len(scans) : scans[j].key # t

\* C3: after every scan of init_'s loop, and after every successful loadDict,
\* keys is the sequence of the scans' operator tokens in scan order with
\* duplicates kept, the mapping holds for each token the operands of the last
\* scan that returned it, and every key of the mapping occurs in keys.
C3_KeysAndMappingFollowScans ==
  (Len(scans) > 0 \/ pc = "done") =>
    /\ keys_.def
    /\ keys_.v = ScanKeys
    /\ DOMAIN dict_ = {scans[i].key : i \in 1..Len(scans)}
    /\ \A t \in DOMAIN dict_ : dict_[t] = scans[LastScanOf(t)].value

\* C4: on a Dict a successful loadDict returned, get(token) returns the stored
\* operand list when token is a key of the mapping and fails with the
\* invalid-key error for a token no scan produced; a failing get changes
\* neither name, keys nor the mapping, so getName, getKeys and get give
\* afterwards what they gave before.
C4_GetReturnsOrFailsLocally ==
  [][(pc = "done" /\ pc' = "done" /\ ret'.op = "get") =>
       /\ ret'.key \in DOMAIN dict_ =>
            (ret'.err = "none" /\ ret'.value = dict_[ret'.key])
       /\ (\A i \in 1..Len(scans) : scans[i].key # ret'.key) =>
            /\ ret'.err = "RangeError"
            /\ ret'.msg = ("CFF " \o name_) \o (" DICT: invalid key: " \o ret'.key)
       /\ ret'.err # "none" =>
            /\ <<name_, keys_, dict_>>' = <<name_, keys_, dict_>>
            /\ getName(Obj)' = getName(Obj)
            /\ getKeys(Obj)' = getKeys(Obj)
            /\ \A k \in QueryKeys : get(Obj, k)' = get(Obj, k)]_vars

\* C4's case: a Dict with entries, on which a get just failed.
C4_Witness ==
  /\ pc = "done"
  /\ Len(scans) > 1
  /\ ret.op = "get"
  /\ ret.err = "RangeError"

\* What the spec calls an OperatorToken.
OperatorTokens ==
  {NatToString(b) : b \in (0..21) \ {12}}
  \cup {"12 " \o NatToString(b) : b \in 0..255}

\* C5: every readOperandsOperator_ call that returns gives one operator token,
\* the decimal string of an operator byte 0..21 other than 12 or "12 " and the
\* decimal string of the byte after a 12, so every entry of getKeys() has one
\* of these forms, also after 49 operands.
C5_EveryKeyIsAnOperatorToken ==
  /\ \A j \in 1..Len(scans) : scans[j].key \in OperatorTokens
  /\ (pc = "done" /\ keys_.def) =>
       \A i \in 1..Len(keys_.v) : keys_.v[i] \in OperatorTokens

\* C6: a successful decode ends with the cursor at the region's length and
\* its last consumed byte belonging to an operator: a region that ends inside
\* a token (operands with no operator after them) makes loadDict fail.
C6_DecodeEndsOnAnOperator ==
  pc = "done" =>
    /\ binEd = dataView_.byteLength
    /\ Len(scans) > 0 =>
         LET last == scans[Len(scans)]
         IN  /\ last.offset = dataView_.byteLength
             /\ \A i \in 1..Len(last.spans) : last.spans[i][2] < last.offset

\* What a caller can observe of a loadDict call.
Outcome(st) ==
  IF st.pc = "done"
    THEN [ok |-> TRUE, error |-> "none", name |-> st.name_, keys |-> st.keys_,
          dict |-> st.dict_]
    ELSE [ok |-> FALSE, error |-> st.error, name |-> "",
          keys |-> Undefined(<<>>), dict |-> <<>>]

\* C7: loadDict calls that differ only in goog.DEBUG and in whether the
\* operator-name map is supplied have the same outcome: both succeed or both
\* fail with the same error, and on success name, keys and mapping are equal.
C7_OutcomeIgnoresDiagnostics ==
  pc \in {"done", "failed"} =>
    \A d \in BOOLEAN, o \in OptChoices :
      Outcome(loadDict(d, [args EXCEPT !.opt_dictOperators = o])) = Outcome(Obj)

\* The operands parseNibbles_ returned: those whose leading byte is 30.
RealOperands == {p \in Operands : LeadOf(p) = 30}

\* Nibble k (from 1) of the bytes after the leading 30, high nibble first.
NibbleAt(p, k) ==
  LET aByte == After(p, 1 + ((k - 1) \div 2))
  IN  IF k % 2 = 1 THEN aByte \div 16 ELSE aByte % 16

\* The nibbles parseNibbles_ can look at: two for each of at most 49 bytes
\* of the region after the leading 30.
NibbleCount(p) ==
  LET left == args.length - (scans[p[1]].spans[p[2]][1] + 1)
  IN  2 * (IF left < 49 THEN left ELSE 49)

Terminators(p) == {k \in 1..NibbleCount(p) : NibbleAt(p, k) = 15}
FirstTerminator(p) ==
  CHOOSE k \in Terminators(p) : \A m \in Terminators(p) : k <= m

NibbleChar(n) ==
  <<"0", "1", "2", "3", "4", "5", "6", "7", "8", "9", ".", "E", "-E", "", "-">>[n + 1]

\* The characters of nibbles lo..hi, in order.
RECURSIVE NibbleString(_, _, _)
NibbleString(p, lo, hi) ==
  IF lo > hi THEN ""
  ELSE IF lo = hi THEN NibbleChar(NibbleAt(p, lo))
  ELSE LET mid == (lo + hi) \div 2
       IN  NibbleString(p, lo, mid) \o NibbleString(p, mid + 1, hi)

\* C8: parseNibbles_ returns the characters of the nibbles before the first
\* 0xf nibble, high nibble first (0..9 the digit, 0xa ".", 0xb "E", 0xc "-E",
\* 0xe "-", 0xd nothing), having consumed the bytes up to and including the
\* one holding that 0xf; with no 0xf in the first 49 bytes it returns what
\* 49 bytes gave, having consumed exactly 49.
C8_RealOperandFollowsNibbles ==
  \A p \in RealOperands :
    LET v == scans[p[1]].value[p[2]]
        first == scans[p[1]].spans[p[2]][1] + 1
        past == scans[p[1]].spans[p[2]][2]
    IN  /\ v.t = "real"
        /\ Terminators(p) # {} =>
             /\ v.s = NibbleString(p, 1, FirstTerminator(p) - 1)
             /\ past = first + ((FirstTerminator(p) + 1) \div 2)
        /\ Terminators(p) = {} =>
             /\ NibbleCount(p) = 98
             /\ v.s = NibbleString(p, 1, 98)
             /\ past = first + 49

\* C8's case: one Dict holding the literal "1.2" of bytes 0x1a, 0x2f and a
\* literal that ran to 49 bytes without a 0xf nibble.
C8_Witness ==
  /\ pc = "done"
  /\ \E p \in RealOperands :
       /\ scans[p[1]].value[p[2]] = RealOperand("1.2")
       /\ After(p, 1) = 26 /\ After(p, 2) = 47
  /\ \E p \in RealOperands :
       /\ Terminators(p) = {}
       /\ scans[p[1]].spans[p[2]][2] = scans[p[1]].spans[p[2]][1] + 50

\* C9: decoding the region that encodes a sequence of entries, each as its
\* operands' bytes then its operator's, reproduces the sequence: getKeys()
\* is the tokens in order and each scan's operand list is the entry's.
C9_RoundTrip ==
  (entries.enc /\ pc \in {"done", "failed"}) =>
    /\ pc = "done"
    /\ keys_.def
    /\ keys_.v = [i \in 1..Len(entries.seq) |-> entries.seq[i].token]
    /\ Len(scans) = Len(entries.seq)
    /\ \A i \in 1..Len(scans) :
         scans[i].value =
           [k \in 1..Len(entries.seq[i].value) |->
              IntOperand(entries.seq[i].value[k])]

InRangeOf(p, lo, hi) ==
  LET v == scans[p[1]].value[p[2]]
  IN  v.t = "int" /\ lo <= v.n /\ v.n <= hi

\* C10: every integer operand lies in the value range Table 3 documents for
\* its encoding: -107..107 for b0 32..246, 108..1131 for 247..250,
\* -1131..-108 for 251..254, -32768..32767 for 28, -(2^31)..2^31-1 for 29.
C10_OperandInDocumentedRange ==
  \A p \in Operands :
    LET b0 == LeadOf(p)
    IN  /\ (b0 >= 32 /\ b0 <= 246) => InRangeOf(p, 0 - 107, 107)
        /\ (b0 >= 247 /\ b0 <= 250) => InRangeOf(p, 108, 1131)
        /\ (b0 >= 251 /\ b0 <= 254) => InRangeOf(p, 0 - 1131, 0 - 108)
        /\ b0 = 28 => InRangeOf(p, 0 - 32768, 32767)
        /\ b0 = 29 => InRangeOf(p, (0 - 2147483647) - 1, 2147483647)

====
